---- MODULE Spec2Model ----
(***************************************************************************)
(* Model of boggart's template package (pkg/template/template.go): the     *)
(* Template / Request data model, the validation functions (CheckTemplate  *)
(* and its sub-checks) and the query helpers (Default,                     *)
(* RootEndpointExists).                                                    *)
(*                                                                         *)
(* Go strings that the code trims, indexes or concatenates (ID, Endpoint,  *)
(* ResponseType, ContentType, Content, the ignore entries) are sequences   *)
(* of one-character strings.  Type and IP are only ever compared for       *)
(* equality and are TLA+ strings.                                          *)
(***************************************************************************)
EXTENDS Naturals, Sequences, FiniteSets

VARIABLES tmpl, call, ret, blanked

vars == <<tmpl, call, ret, blanked>>

(*************************** bounds of the model ***************************)
MaxReqs == 2
MaxIgnore == 2

(******************************* strings *********************************)
sEmpty == <<>>
sSpace == <<" ">>
sDefault == <<"d", "e", "f", "a", "u", "l", "t">>
sA == <<"a">>
sRoot == <<"/">>
sSlashA == <<"/", "a">>
sRaw == <<"r", "a", "w">>
sPlain == <<"t", "e", "x", "t", "/", "p", "l", "a", "i", "n">>
sHi == <<" ", "h", "i", " ">>

Range(s) == {s[k] : k \in DOMAIN s}

\* strings.Trim(s, " "): s without its leading and trailing spaces.
RECURSIVE TrimLeft(_)
TrimLeft(s) ==
    IF s # <<>> /\ Head(s) = " " THEN TrimLeft(Tail(s)) ELSE s

RECURSIVE TrimRight(_)
TrimRight(s) ==
    IF s # <<>> /\ s[Len(s)] = " " THEN TrimRight(SubSeq(s, 1, Len(s) - 1)) ELSE s

Trim(s) == TrimRight(TrimLeft(s))

(***************************** data model ********************************)
RawTemplateType == "raw"
ShodanTemplateType == "shodan"
MethodGet == "GET"

Request(id, methods, endpoint, rt, ct, content) ==
    [ID |-> id, Methods |-> methods, Endpoint |-> endpoint,
     ResponseType |-> rt, ContentType |-> ct, Content |-> content]

\* Request{}: the zero value of the struct.
ZeroRequest == Request(<<>>, <<>>, <<>>, <<>>, <<>>, <<>>)

Template(type, requests, ignore, ip) ==
    [Type |-> type, Requests |-> requests, Ignore |-> ignore, IP |-> ip]

(****************************** errors ***********************************)
\* An error value is <<message, suffix>>: the message literal and the string
\* the code concatenates to it.  nil is the empty tuple.  A run-time panic
\* (index out of range) is a one-element tuple.
Nil == <<>>
Err(msg) == <<msg, <<>>>>
ErrID(msg, id) == <<msg, id>>
Panic == <<"panic: runtime error: index out of range [0] with length 0">>

(*************************** template helpers ****************************)
\* The loop shared by IDUnique and EndpointUnique: list collects the first
\* occurrence of every key (keys is the set of the members of list).
RECURSIVE FirstOccurrences(_, _, _)
FirstOccurrences(seq, i, list) ==
    IF i > Len(seq) THEN list
    ELSE IF seq[i] \in Range(list)
         THEN FirstOccurrences(seq, i + 1, list)
         ELSE FirstOccurrences(seq, i + 1, Append(list, seq[i]))

IDUnique(t) ==
    IF t.Type = "raw"
    THEN LET ids == [i \in DOMAIN t.Requests |-> t.Requests[i].ID]
         IN  Len(t.Requests) = Len(FirstOccurrences(ids, 1, <<>>))
    ELSE TRUE

EndpointUnique(t) ==
    IF t.Type = "raw"
    THEN LET eps == [i \in DOMAIN t.Requests |-> t.Requests[i].Endpoint]
         IN  Len(t.Requests) = Len(FirstOccurrences(eps, 1, <<>>))
    ELSE TRUE

RECURSIVE MissingLoop(_, _, _)
MissingLoop(reqs, i, missing) ==
    IF i > Len(reqs) THEN missing
    ELSE MissingLoop(reqs, i + 1, IF reqs[i].ID = sDefault THEN FALSE ELSE missing)

MissingTemplateDefault(t) ==
    IF t.Type = "raw" THEN MissingLoop(t.Requests, 1, TRUE) ELSE FALSE

RECURSIVE RootLoop(_, _)
RootLoop(reqs, i) ==
    IF i > Len(reqs) THEN FALSE
    ELSE IF reqs[i].Endpoint = sRoot THEN TRUE ELSE RootLoop(reqs, i + 1)

\* The function ends with "return true" whether or not the loop returned.
RootEndpointExists(t) ==
    IF t.Type = "raw" /\ RootLoop(t.Requests, 1) THEN TRUE ELSE TRUE

\* Mutant: the scan does not stop at the first match and keeps the last.
RECURSIVE DefaultLoopLast(_, _)
DefaultLoopLast(reqs, i) ==
    IF i > Len(reqs) THEN ZeroRequest
    ELSE LET rest == DefaultLoopLast(reqs, i + 1)
         IN  IF rest # ZeroRequest THEN rest
             ELSE IF reqs[i].ID = sDefault THEN reqs[i] ELSE ZeroRequest

RECURSIVE DefaultLoop(_, _)
DefaultLoop(reqs, i) ==
    IF i > Len(reqs) THEN ZeroRequest
    ELSE IF reqs[i].ID = sDefault THEN reqs[i] ELSE DefaultLoop(reqs, i + 1)

Default(t) ==
    IF t.Type = "raw" THEN DefaultLoop(t.Requests, 1) ELSE ZeroRequest

(***************************** sub-checks ********************************)

CheckRequest(entry) ==
    IF Trim(entry.ID) = <<>>
    THEN Err("template: missing id in request")
    ELSE IF entry.ID # sDefault
    THEN IF Trim(entry.Endpoint) = <<>>
         THEN ErrID("template: missing endpoint in request with id ", entry.ID)
         ELSE IF Len(entry.Methods) = 0
         THEN ErrID("template: missing methods in request with id ", entry.ID)
         ELSE IF Trim(entry.ResponseType) = <<>>
         THEN ErrID("template: missing response type in request with id ", entry.ID)
         ELSE IF Trim(entry.ContentType) = <<>>
         THEN ErrID("template: missing content type in request with id ", entry.ID)
         ELSE IF Trim(entry.Content) = <<>>
         THEN ErrID("template: missing content in request with id ", entry.ID)
         ELSE Nil
    ELSE Nil

RECURSIVE CheckRequestsLoop(_, _)
CheckRequestsLoop(reqs, i) ==
    IF i > Len(reqs) THEN Nil
    ELSE LET e == CheckRequest(reqs[i])
         IN  IF e # Nil THEN e ELSE CheckRequestsLoop(reqs, i + 1)

CheckRequests(t) == CheckRequestsLoop(t.Requests, 1)

\* Mutant: the content of the default request is not checked.
CheckDefaultRequestNoContent(t) ==
    LET entry == Default(t)
    IN  IF Trim(entry.ResponseType) = <<>>
        THEN Err("template: missing response type in default request")
        ELSE IF Trim(entry.ContentType) = <<>>
        THEN Err("template: missing content type in default request")
        ELSE Nil

CheckDefaultRequest(t) ==
    LET entry == Default(t)
    IN  IF Trim(entry.ResponseType) = <<>>
        THEN Err("template: missing response type in default request")
        ELSE IF Trim(entry.ContentType) = <<>>
        THEN Err("template: missing content type in default request")
        ELSE IF Trim(entry.Content) = <<>>
        THEN Err("template: missing content in default request")
        ELSE Nil

\* slice.RemoveDuplicateValues: order-preserving removal of repeated values.
RemoveDuplicateValues(input) == FirstOccurrences(input, 1, <<>>)

\* for _, path := range input { if path[0] != '/' ... }: indexing an empty
\* string panics.
RECURSIVE SlashLoop(_, _)
SlashLoop(input, i) ==
    IF i > Len(input) THEN Nil
    ELSE IF Len(input[i]) = 0 THEN Panic
    ELSE IF input[i][1] # "/"
    THEN Err("template: all paths in ignore array must start with a forward slash")
    ELSE SlashLoop(input, i + 1)

\* Mutant: the ignore entry is compared with the last request only.
ConflictInnerLastOnly(ignoreElem, reqs, j) ==
    Len(reqs) > 0 /\ ignoreElem = reqs[Len(reqs)].Endpoint

RECURSIVE ConflictInner(_, _, _)
ConflictInner(ignoreElem, reqs, j) ==
    IF j > Len(reqs) THEN FALSE
    ELSE IF ignoreElem = reqs[j].Endpoint THEN TRUE
    ELSE ConflictInner(ignoreElem, reqs, j + 1)

RECURSIVE ConflictLoop(_, _, _)
ConflictLoop(input, reqs, i) ==
    IF i > Len(input) THEN Nil
    ELSE IF ConflictInner(input[i], reqs, 1)
    THEN Err("template: path defined both in ignore and requests")
    ELSE ConflictLoop(input, reqs, i + 1)

CheckIgnore(t) ==
    LET input == t.Ignore
    IN  IF Len(input) = 0 THEN Nil
        ELSE IF Len(input) # Len(RemoveDuplicateValues(input))
        THEN Err("template: duplicate paths in ignore array")
        ELSE LET e == SlashLoop(input, 1)
             IN  IF e # Nil THEN e ELSE ConflictLoop(input, t.Requests, 1)

(***************************** validation ********************************)
CheckRawTeplate(t) ==
    IF ~IDUnique(t) THEN Err("template: request IDs are not unique")
    ELSE IF ~EndpointUnique(t) THEN Err("template: request endpoints are not unique")
    ELSE IF MissingTemplateDefault(t) THEN Err("template: missing default request")
    ELSE LET e1 == CheckRequests(t)
         IN  IF e1 # Nil THEN e1
             ELSE LET e2 == CheckDefaultRequest(t)
                  IN  IF e2 # Nil THEN e2
                      ELSE LET e3 == CheckIgnore(t)
                           IN  IF e3 # Nil THEN e3 ELSE Nil

\* Mutant: the ip is required, as the error message says.
CheckShodanTemplateIPRequired(t) ==
    IF t.IP = "" THEN Err("template: ip is mandatory") ELSE Nil

CheckShodanTemplate(t) ==
    IF t.IP # "" THEN Err("template: ip is mandatory") ELSE Nil

\* Mutant: every type other than "shodan" is checked as a raw template.
CheckTemplateRawByDefault(t) ==
    IF t.Type = "" THEN Err("template: missing template type")
    ELSE IF t.Type = "shodan" THEN CheckShodanTemplate(t)
    ELSE CheckRawTeplate(t)

CheckTemplate(t) ==
    IF t.Type = "" THEN Err("template: missing template type")
    ELSE IF t.Type = "raw" THEN CheckRawTeplate(t)
    ELSE IF t.Type = "shodan" THEN CheckShodanTemplate(t)
    ELSE Nil

(************************* the inputs of the model ************************)
\* What ReadTemplate can hand to the package: yaml.Unmarshal fills the struct
\* with whatever the file holds, valid or not.
Types == {"", RawTemplateType, ShodanTemplateType, "nmap"}
IPs == {"", "1.2.3.4"}
IDs == {sDefault, sA, sSpace}
Endpoints == {sEmpty, sRoot, sSlashA}
MethodLists == {<<>>, <<MethodGet>>}
ResponseTypes == {sEmpty, sRaw}
ContentTypes == {sSpace, sPlain}
Contents == {sEmpty, sHi}
IgnorePaths == {sEmpty, sSlashA, sA}

\* Every combination of the field values.
Requests ==
    {Request(id, m, ep, rt, ct, c) :
        id \in IDs, m \in MethodLists, ep \in Endpoints,
        rt \in ResponseTypes, ct \in ContentTypes, c \in Contents}

\* Requests whose methods, response-type, content-type and content are given
\* together or left out together.
Bodies == {<<<<>>, sEmpty, sSpace, sEmpty>>, <<<<MethodGet>>, sRaw, sPlain, sHi>>}
PlainRequests ==
    {Request(id, b[1], ep, b[2], b[3], b[4]) :
        id \in IDs, ep \in Endpoints, b \in Bodies}

SeqsUpTo(S, n) == UNION {[1..k -> S] : k \in 0..n}

(******************************** state **********************************)
\* tmpl     the Template value read from the configuration file
\* call     the function of the package called last ("none" before any call)
\* ret      what that call returned
\* blanked  <<>>, or <<i, f>> once field f of request i of a validated
\*          configuration has been emptied and the file read again
Fields == {"Endpoint", "Methods", "ResponseType", "ContentType", "Content"}
DefaultFields == {"ResponseType", "ContentType", "Content"}

\* The fields the validator demands of a request.
MandatoryFields(entry) == IF entry.ID = sDefault THEN DefaultFields ELSE Fields

\* Templates of every type, over PlainRequests.  BlankField adds to them
\* the accepted raw templates with one mandatory field emptied.
Init ==
    /\ \E ty \in Types, ip \in IPs,
          rs \in SeqsUpTo(PlainRequests, MaxReqs),
          ig \in SeqsUpTo(IgnorePaths, MaxIgnore) :
            tmpl = Template(ty, rs, ig, ip)
    /\ call = "none"
    /\ ret = Nil
    /\ blanked = <<>>

\* Raw templates, over every combination of the request fields.
InitRaw ==
    /\ \E ip \in IPs,
          rs \in SeqsUpTo(Requests, MaxReqs),
          ig \in SeqsUpTo(IgnorePaths, MaxIgnore) :
            tmpl = Template(RawTemplateType, rs, ig, ip)
    /\ call = "none"
    /\ ret = Nil
    /\ blanked = <<>>

CallCheckTemplate ==
    /\ call = "none"
    /\ call' = "CheckTemplate"
    /\ ret' = CheckTemplate(tmpl)
    /\ UNCHANGED <<tmpl, blanked>>

CallCheckRequests ==
    /\ call = "none"
    /\ call' = "CheckRequests"
    /\ ret' = CheckRequests(tmpl)
    /\ UNCHANGED <<tmpl, blanked>>

CallCheckDefaultRequest ==
    /\ call = "none"
    /\ call' = "CheckDefaultRequest"
    /\ ret' = CheckDefaultRequest(tmpl)
    /\ UNCHANGED <<tmpl, blanked>>

CallCheckIgnore ==
    /\ call = "none"
    /\ call' = "CheckIgnore"
    /\ ret' = CheckIgnore(tmpl)
    /\ UNCHANGED <<tmpl, blanked>>

CallDefault ==
    /\ call = "none"
    /\ call' = "Default"
    /\ ret' = Default(tmpl)
    /\ UNCHANGED <<tmpl, blanked>>

CallRootEndpointExists ==
    /\ call = "none"
    /\ call' = "RootEndpointExists"
    /\ ret' = RootEndpointExists(tmpl)
    /\ UNCHANGED <<tmpl, blanked>>

\* A configuration that CheckTemplate accepted is edited: one mandatory field
\* of one request is replaced by the empty value, and the file is read again.
BlankField ==
    /\ call = "CheckTemplate"
    /\ ret = Nil
    /\ tmpl.Type = RawTemplateType
    /\ blanked = <<>>
    /\ \E i \in DOMAIN tmpl.Requests :
         \E f \in MandatoryFields(tmpl.Requests[i]) :
            /\ tmpl' = [tmpl EXCEPT !.Requests[i][f] = <<>>]
            /\ blanked' = <<i, f>>
    /\ call' = "none"
    /\ ret' = Nil

Next ==
    \/ CallCheckTemplate
    \/ CallCheckRequests
    \/ CallCheckDefaultRequest
    \/ CallCheckIgnore
    \/ CallDefault
    \/ CallRootEndpointExists
    \/ BlankField

Spec == Init /\ [][Next]_vars

SpecRaw == InitRaw /\ [][Next]_vars

(************************ vocabulary of the properties ********************)
\* Blank: empty, or made of space characters only.
Blank(s) == \A k \in DOMAIN s : s[k] = " "
Distinct(seq) == \A i, j \in DOMAIN seq : i # j => seq[i] # seq[j]
StartsWithSlash(s) == s # <<>> /\ s[1] = "/"
IDsOf(t) == [i \in DOMAIN t.Requests |-> t.Requests[i].ID]
EndpointsOf(t) == [i \in DOMAIN t.Requests |-> t.Requests[i].Endpoint]
DefaultIndexes(t) == {i \in DOMAIN t.Requests : t.Requests[i].ID = sDefault}
BodyComplete(r) ==
    ~Blank(r.ResponseType) /\ ~Blank(r.ContentType) /\ ~Blank(r.Content)
IgnoreWellFormed(t) ==
    t.Ignore # <<>> =>
        /\ Distinct(t.Ignore)
        /\ \A k \in DOMAIN t.Ignore : StartsWithSlash(t.Ignore[k])
        /\ \A k \in DOMAIN t.Ignore : t.Ignore[k] \notin Range(EndpointsOf(t))

\* The conditions the specification lists for a raw template.
RawWellFormed(t) ==
    /\ Distinct(IDsOf(t))
    /\ Distinct(EndpointsOf(t))
    /\ Cardinality(DefaultIndexes(t)) = 1
    /\ \A i \in DOMAIN t.Requests :
         LET r == t.Requests[i]
         IN  IF r.ID = sDefault
             THEN BodyComplete(r)
             ELSE ~Blank(r.Endpoint) /\ r.Methods # <<>> /\ BodyComplete(r)
    /\ IgnoreWellFormed(t)

Checked(t) == call = "CheckTemplate" /\ tmpl.Type = t

(********************************* C1 ************************************)
\* C1 as stated: a raw template is accepted by CheckTemplate if and only if
\* its ids are distinct, its endpoints are distinct, exactly one request is
\* the default, every request has its mandatory fields non-blank and the
\* ignore list is well formed.
C1_AsStated ==
    Checked(RawTemplateType) => (ret = Nil <=> RawWellFormed(tmpl))

\* C1 (amended): a raw template is accepted by CheckTemplate if and only if
\* the listed conditions hold and, in addition, no request has a blank id.
C1_RawAcceptedIff ==
    Checked(RawTemplateType) =>
        (ret = Nil <=>
            /\ RawWellFormed(tmpl)
            /\ \A i \in DOMAIN tmpl.Requests : ~Blank(tmpl.Requests[i].ID))

\* An accepted raw template with a non-default request and an ignore list.
C1_Witness ==
    /\ Checked(RawTemplateType)
    /\ ret = Nil
    /\ Len(tmpl.Requests) = 2
    /\ tmpl.Ignore # <<>>
    /\ blanked = <<>>

(********************************* C2 ************************************)
\* C2: a shodan template is accepted if and only if its ip is empty; with a
\* non-empty ip the error is "ip is mandatory"; requests and ignore list
\* play no part.
C2_ShodanIffEmptyIP ==
    Checked(ShodanTemplateType) =>
        /\ ret = Nil <=> tmpl.IP = ""
        /\ tmpl.IP # "" => ret = Err("template: ip is mandatory")

\* A shodan template with an ip, duplicate ids and a malformed ignore list
\* has been checked.
C2_Witness ==
    /\ Checked(ShodanTemplateType)
    /\ tmpl.IP # ""
    /\ ret = Err("template: ip is mandatory")
    /\ ~Distinct(IDsOf(tmpl))
    /\ ~IgnoreWellFormed(tmpl)

(********************************* C7 ************************************)
\* C7: CheckTemplate with an empty type returns "missing template type", and
\* with a type other than "", "raw", "shodan" returns no error, whatever
\* the requests, the ignore list and the ip hold.
C7_DispatchOnType ==
    call = "CheckTemplate" =>
        /\ tmpl.Type = "" => ret = Err("template: missing template type")
        /\ tmpl.Type \notin {"", "raw", "shodan"} => ret = Nil

\* A template of an unknown type with duplicate ids, no default and a
\* malformed ignore list has been checked and accepted.
C7_Witness ==
    /\ call = "CheckTemplate"
    /\ tmpl.Type \notin {"", "raw", "shodan"}
    /\ ret = Nil
    /\ ~Distinct(IDsOf(tmpl))
    /\ DefaultIndexes(tmpl) = {}
    /\ ~IgnoreWellFormed(tmpl)
    /\ tmpl.IP # ""

(********************************* C3 ************************************)
\* The error that names the emptied field f of request r.
MissingFieldError(r, f) ==
    IF r.ID = sDefault
    THEN CASE f = "ResponseType" -> Err("template: missing response type in default request")
           [] f = "ContentType" -> Err("template: missing content type in default request")
           [] f = "Content" -> Err("template: missing content in default request")
    ELSE CASE f = "Endpoint" -> ErrID("template: missing endpoint in request with id ", r.ID)
           [] f = "Methods" -> ErrID("template: missing methods in request with id ", r.ID)
           [] f = "ResponseType" -> ErrID("template: missing response type in request with id ", r.ID)
           [] f = "ContentType" -> ErrID("template: missing content type in request with id ", r.ID)
           [] f = "Content" -> ErrID("template: missing content in request with id ", r.ID)

Rechecked == call = "CheckTemplate" /\ blanked # <<>>

\* C3 as stated: once one mandatory field of one request of an accepted raw
\* template is emptied, CheckTemplate fails with the error of that field.
C3_AsStated ==
    Rechecked => ret = MissingFieldError(tmpl.Requests[blanked[1]], blanked[2])

\* What the code does instead (holds under Spec and SpecRaw): the error is
\* that of the emptied field, except that emptying the endpoint of a
\* non-default request while the default request has the empty endpoint is
\* reported as "request endpoints are not unique".
C3_CodeBehaviour ==
    Rechecked =>
        LET i == blanked[1]
            f == blanked[2]
        IN  IF f = "Endpoint" /\ \E j \in DOMAIN tmpl.Requests :
                                    j # i /\ tmpl.Requests[j].Endpoint = <<>>
            THEN ret = Err("template: request endpoints are not unique")
            ELSE ret = MissingFieldError(tmpl.Requests[i], f)

(********************************* C5 ************************************)
\* C5: Default on a raw template returns the first request in declared order
\* whose id is "default", unchanged; on a shodan template it returns the zero
\* Request whatever the requests are.
C5_DefaultIsFirstMatch ==
    call = "Default" =>
        /\ (tmpl.Type = RawTemplateType /\ DefaultIndexes(tmpl) # {}) =>
              \E i \in DefaultIndexes(tmpl) :
                  /\ \A j \in DefaultIndexes(tmpl) : i <= j
                  /\ ret = tmpl.Requests[i]
        /\ tmpl.Type = ShodanTemplateType => ret = ZeroRequest

\* Default was called on a raw template with two different default requests.
C5_Witness ==
    /\ call = "Default"
    /\ tmpl.Type = RawTemplateType
    /\ Cardinality(DefaultIndexes(tmpl)) = 2
    /\ tmpl.Requests[1] # tmpl.Requests[2]
    /\ ret = tmpl.Requests[1]

(********************************* C8 ************************************)
\* C8: on every raw template that CheckTemplate accepts, Default returns a
\* request with id "default" whose response-type, content-type and content
\* are non-blank, and no other request has that id.
C8_DefaultAfterValidation ==
    (call = "Default" /\ tmpl.Type = RawTemplateType /\ CheckTemplate(tmpl) = Nil) =>
        /\ ret # ZeroRequest
        /\ ret.ID = sDefault
        /\ BodyComplete(ret)
        /\ Cardinality(DefaultIndexes(tmpl)) = 1

\* Default was called on an accepted raw template whose default request is
\* not the first one.
C8_Witness ==
    /\ call = "Default"
    /\ tmpl.Type = RawTemplateType
    /\ CheckTemplate(tmpl) = Nil
    /\ Len(tmpl.Requests) = 2
    /\ ret = tmpl.Requests[2]

(********************************* C4 ************************************)
\* The first complaint, in the stated field order, about one request.
RequestComplaint(r) ==
    IF Blank(r.ID) THEN Err("template: missing id in request")
    ELSE IF r.ID = sDefault THEN Nil
    ELSE IF Blank(r.Endpoint)
    THEN ErrID("template: missing endpoint in request with id ", r.ID)
    ELSE IF r.Methods = <<>>
    THEN ErrID("template: missing methods in request with id ", r.ID)
    ELSE IF Blank(r.ResponseType)
    THEN ErrID("template: missing response type in request with id ", r.ID)
    ELSE IF Blank(r.ContentType)
    THEN ErrID("template: missing content type in request with id ", r.ID)
    ELSE IF Blank(r.Content)
    THEN ErrID("template: missing content in request with id ", r.ID)
    ELSE Nil

IncompleteIndexes(t) ==
    {i \in DOMAIN t.Requests : RequestComplaint(t.Requests[i]) # Nil}

FirstOf(S) == CHOOSE i \in S : \A j \in S : i <= j

DefaultComplaint(r) ==
    IF Blank(r.ResponseType)
    THEN Err("template: missing response type in default request")
    ELSE IF Blank(r.ContentType)
    THEN Err("template: missing content type in default request")
    ELSE Err("template: missing content in default request")

\* The consistency rules in the stated order, each with whether the template
\* violates it and the error that reports it.
Rules(t) ==
    << <<~Distinct(IDsOf(t)), Err("template: request IDs are not unique")>>,
       <<~Distinct(EndpointsOf(t)), Err("template: request endpoints are not unique")>>,
       <<DefaultIndexes(t) = {}, Err("template: missing default request")>>,
       <<IncompleteIndexes(t) # {},
         IF IncompleteIndexes(t) # {}
         THEN RequestComplaint(t.Requests[FirstOf(IncompleteIndexes(t))])
         ELSE Nil>>,
       <<\E i \in DefaultIndexes(t) : ~BodyComplete(t.Requests[i]),
         IF DefaultIndexes(t) # {}
         THEN DefaultComplaint(t.Requests[FirstOf(DefaultIndexes(t))])
         ELSE Nil>>,
       <<t.Ignore # <<>> /\ ~Distinct(t.Ignore),
         Err("template: duplicate paths in ignore array")>>,
       <<\E k \in DOMAIN t.Ignore : ~StartsWithSlash(t.Ignore[k]),
         Err("template: all paths in ignore array must start with a forward slash")>>,
       <<\E k \in DOMAIN t.Ignore : t.Ignore[k] \in Range(EndpointsOf(t)),
         Err("template: path defined both in ignore and requests")>> >>

Violated(t) == {k \in DOMAIN Rules(t) : Rules(t)[k][1]}

\* C4 as stated: on a raw template that violates more than one rule,
\* CheckTemplate returns the error of the earliest violated rule in the
\* fixed order, and nothing else.
C4_AsStated ==
    (Checked(RawTemplateType) /\ Cardinality(Violated(tmpl)) > 1) =>
        ret = Rules(tmpl)[FirstOf(Violated(tmpl))][2]

(********************************* C6 ************************************)
\* C6 as stated: CheckIgnore never faults, and on a non-empty ignore list
\* without duplicates that holds an empty entry it returns the "must start
\* with a forward slash" error.
C6_AsStated ==
    call = "CheckIgnore" =>
        /\ ret # Panic
        /\ (Distinct(tmpl.Ignore) /\ sEmpty \in Range(tmpl.Ignore)) =>
              ret = Err("template: all paths in ignore array must start with a forward slash")

(********************************* C9 ************************************)
\* C9 as stated: called directly on a shodan template, CheckRequests,
\* CheckDefaultRequest and CheckIgnore each return no error.
C9_AsStated ==
    (call \in {"CheckRequests", "CheckDefaultRequest", "CheckIgnore"}
        /\ tmpl.Type = ShodanTemplateType) => ret = Nil

(********************************* C10 ***********************************)
\* C10 as stated: RootEndpointExists on a raw template is true if and only
\* if some request has the endpoint "/"; on a shodan template it is true.
C10_AsStated ==
    call = "RootEndpointExists" =>
        /\ tmpl.Type = RawTemplateType =>
              (ret <=> sRoot \in Range(EndpointsOf(tmpl)))
        /\ tmpl.Type = ShodanTemplateType => ret = TRUE
====
